---- MODULE Spec2Model ----
(***************************************************************************)
(* A model of the spectrometer simulation of raston-function-rework:       *)
(* helper.py (__param_check, __calc_wstep), blackbody_window_detector.py   *)
(* (the eight component curves) and app.py (main).                         *)
(*                                                                         *)
(* Numbers.  Python floats are modelled by integers:                       *)
(*   - a resolution r is the integer r * 10000 (1 -> 10000, 0.0625 -> 625);*)
(*   - a wstep is the integer wstep * 10^9 (0.481927711 -> 481927711);     *)
(*   - transmittance values, component curve values and noise samples are  *)
(*     small integers.  The component curves are closed-form float         *)
(*     expressions (exp, sqrt, real powers); each is modelled by a fixed   *)
(*     integer-valued function of the axis point, all eight different.     *)
(* A JSON value is a record [none, num, str]: None, a number or a string.  *)
(***************************************************************************)
EXTENDS Integers, Sequences, FiniteSets, TLC

VARIABLES
    data,        \* the dictionary json.load returned (app.py:36)
    pc,          \* position of main() in app.py
    wstep,       \* local wstep of main (app.py:47), Unbound before
    s,           \* the Spectrum calc_spectrum returned (app.py:53)
    w,           \* s.get_wavenumber() (app.py:77)
    spec,        \* the component model spectra built so far (app.py:82-150)
    spectrum,    \* the running spectrum (app.py:157 onwards)
    x,           \* iterations of "for x in range(numScan)" begun (app.py:161)
    printed,     \* what main printed on stdout (print calls, not __log)
    uncaught,    \* the exception that left main uncaught, "" when none
    exitStatus,  \* exit status of the process once pc = "exit"
    solverCalls, \* history: number of calc_spectrum invocations
    buildCount,  \* history: number of Spectrum(...) constructions per model
    log,         \* history: SerialSlabs / add_array calls, in order
    scanStart,   \* history: the running spectrum at the start of each scan
    scanEnd      \* history: the running spectrum at the end of each scan

vars == <<data, pc, wstep, s, w, spec, spectrum, x, printed, uncaught,
          exitStatus, solverCalls, buildCount, log, scanStart, scanEnd>>

-----------------------------------------------------------------------------
(* Bounds of the model *)

MaxScan == 2        \* numScan ranges over 0..MaxScan
MaxMissing == 1     \* at most this many required keys are left out
MaxNull == 1        \* at most this many values are None

-----------------------------------------------------------------------------
(* JSON values and Python locals *)

None == [none |-> TRUE, num |-> 0, str |-> ""]
Num(n) == [none |-> FALSE, num |-> n, str |-> ""]
Str(t) == [none |-> FALSE, num |-> 0, str |-> t]

Unbound == [bound |-> FALSE, val |-> 0]     \* a local never assigned
Bound(v) == [bound |-> TRUE, val |-> v]
NoSpectrum == [w |-> << >>, t |-> << >>]    \* no Spectrum object yet

-----------------------------------------------------------------------------
(* helper.py *)

valid_params ==
    {"minWave", "maxWave", "molecule", "pressure", "resolution", "numScan",
     "zeroFill", "source", "beamsplitter", "cellWindow", "detector"}

(* The for loop of __param_check over the items not yet visited: False at
   the first key that is not a valid name or whose value is None.  The dict
   is visited in insertion order; the value returned does not depend on the
   order, and the lines printed on the way are not modelled. *)
RECURSIVE ParamLoop(_, _)
ParamLoop(d, keys) ==
    IF keys = {} THEN TRUE
    ELSE LET key == CHOOSE k \in keys : TRUE
         IN  IF (key \in valid_params) /\ ~d[key].none
             THEN ParamLoop(d, keys \ {key})
             ELSE FALSE

(* __param_check without its test of len(data) *)
ParamCheckNoLen(d) == ParamLoop(d, DOMAIN d)

(* __param_check(data) *)
ParamCheck(d) ==
    IF Cardinality(DOMAIN d) # 11 THEN FALSE
    ELSE ParamLoop(d, DOMAIN d)

(* The match statement of __calc_wstep: the value bound to wstep, Unbound
   when no case matches. *)
WstepMatch(resolution, zero_fill) ==
    CASE resolution = 10000 ->
           (CASE zero_fill = 0 -> Bound(481927711)
              [] zero_fill = 1 -> Bound(240963855)
              [] zero_fill = 2 -> Bound(120481928)
              [] OTHER -> Unbound)
      [] resolution = 5000 ->
           (CASE zero_fill = 0 -> Bound(240963855)
              [] zero_fill = 1 -> Bound(120481928)
              [] zero_fill = 2 -> Bound(60240964)
              [] OTHER -> Unbound)
      [] resolution = 2500 ->
           (CASE zero_fill = 0 -> Bound(120481928)
              [] zero_fill = 1 -> Bound(60240964)
              [] zero_fill = 2 -> Bound(30120482)
              [] OTHER -> Unbound)
      [] resolution = 1250 ->
           (CASE zero_fill = 0 -> Bound(60240964)
              [] zero_fill = 1 -> Bound(30120482)
              [] zero_fill = 2 -> Bound(15060241)
              [] OTHER -> Unbound)
      [] resolution = 625 ->
           (CASE zero_fill = 0 -> Bound(30120482)
              [] zero_fill = 1 -> Bound(15060241)
              [] zero_fill = 2 -> Bound(7530120)
              [] OTHER -> Unbound)
      [] OTHER -> Unbound

(* __calc_wstep with wstep preset to the coarsest step before the match *)
CalcWstepPreset(resolution, zero_fill) ==
    LET v == WstepMatch(resolution, zero_fill)
    IN  [raised |-> FALSE, value |-> IF v.bound THEN v.val ELSE 481927711]

(* __calc_wstep(resolution, zero_fill): "return wstep" raises
   UnboundLocalError when no case bound wstep. *)
CalcWstep(resolution, zero_fill) ==
    LET v == WstepMatch(resolution, zero_fill)
    IN  [raised |-> ~v.bound, value |-> v.val]

-----------------------------------------------------------------------------
(* blackbody_window_detector.py: the component curves at axis point p.     *)
(* Each stands for the float expression of the function of the same name.  *)

sPlanck(p, temp) == 1 + ((p * p + temp) % 3)
CaF2(p) == 2
ZnSe(p) == 1 + (p % 3)
sapphire(p) == 1 + ((p + 1) % 3)
AR_ZnSe(p) == 1 + ((p + 2) % 3)
AR_CaF2(p) == 1 + ((2 * p) % 3)
InSb(p) == 1 + ((2 * p + 1) % 3)
MCT(p) == 1 + ((2 * p + 2) % 3)

(* The order in which main builds the model spectra *)
ModelOrder ==
    <<"sPlanck", "AR_ZnSe", "AR_CaF2", "CaF2", "ZnSe", "sapphire", "MCT",
      "InSb">>

ModelNames == {ModelOrder[i] : i \in 1..Len(ModelOrder)}

(* The curve main passes to Spectrum(...) for the model called name *)
Curve(name, p, temp) ==
    CASE name = "sPlanck" -> sPlanck(p, temp)
      [] name = "AR_ZnSe" -> AR_ZnSe(p)
      [] name = "AR_CaF2" -> AR_CaF2(p)
      [] name = "CaF2" -> CaF2(p)
      [] name = "ZnSe" -> ZnSe(p)
      [] name = "sapphire" -> sapphire(p)
      [] name = "MCT" -> MCT(p)
      [] name = "InSb" -> InSb(p)

-----------------------------------------------------------------------------
(* radis, as app.py uses it *)

(* SerialSlabs(a, b): a's transmittance values times the corresponding
   values of b (app.py:154) *)
SerialSlabs(a, b) ==
    [w |-> a.w, t |-> [i \in 1..Len(a.t) |-> a.t[i] * b.t[i]]]

(* add_array(a, arr, var="transmittance_noslit") *)
AddArray(a, arr) ==
    [w |-> a.w, t |-> [i \in 1..Len(a.t) |-> a.t[i] + arr[i]]]

(* Spectrum({"wavenumber": axis, "transmittance_noslit": curve(axis)}) *)
ModelSpectrum(name, axis, temp) ==
    [w |-> axis, t |-> [i \in 1..Len(axis) |-> Curve(name, axis[i], temp)]]

-----------------------------------------------------------------------------
(* The inputs: data.json and what the solver may answer *)

DefaultData ==
    [k \in valid_params |->
        CASE k = "minWave" -> Num(1900)
          [] k = "maxWave" -> Num(2300)
          [] k = "molecule" -> Str("CO")
          [] k = "pressure" -> Num(1)
          [] k = "resolution" -> Num(10000)
          [] k = "numScan" -> Num(1)
          [] k = "zeroFill" -> Num(0)
          [] k = "source" -> Num(294)
          [] k = "beamsplitter" -> Str("AR_ZnSe")
          [] k = "cellWindow" -> Str("CaF2")
          [] k = "detector" -> Str("MCT")]

ExtraKeys == {"comment", "minwave"}     \* names outside valid_params

(* DefaultData without the keys of missing, with the keys of extra, and
   None at the keys of nulls *)
Shaped(missing, extra, nulls) ==
    [k \in (valid_params \ missing) \cup extra |->
        IF k \in nulls THEN None
        ELSE IF k \in valid_params THEN DefaultData[k] ELSE Str("x")]

ShapedConfigs ==
    {Shaped(missing, extra, nulls) :
        missing \in {m \in SUBSET valid_params : Cardinality(m) <= MaxMissing},
        extra \in SUBSET ExtraKeys,
        nulls \in {n \in SUBSET (valid_params \cup ExtraKeys) :
                     Cardinality(n) <= MaxNull}}

Resolutions == {10000, 5000, 2500, 1250, 625, 20000}
ZeroFills == 0..3
Beamsplitters == {"AR_ZnSe", "AR_CaF2", "KBr"}
CellWindows == {"CaF2", "ZnSe", "KBr"}
Detectors == {"MCT", "InSb", "DTGS"}
Temperatures == {294, 295}

(* Complete configurations: the grid parameters vary, or the scan
   parameters do *)
GridConfigs ==
    {[DefaultData EXCEPT !["resolution"] = Num(r), !["zeroFill"] = Num(z)] :
        r \in Resolutions, z \in ZeroFills}

ScanConfigs ==
    {[DefaultData EXCEPT !["numScan"] = Num(n), !["beamsplitter"] = Str(b),
                         !["cellWindow"] = Str(c), !["detector"] = Str(d),
                         !["source"] = Num(t)] :
        n \in 0..MaxScan, b \in Beamsplitters, c \in CellWindows,
        d \in Detectors, t \in Temperatures}

Configs == ShapedConfigs \cup GridConfigs \cup ScanConfigs

(* Spectra calc_spectrum may return: an axis and a transmittance per point *)
Axes == {<<1>>, <<1, 2>>, <<2, 3>>}
BaseVals == {1, 2}
SolverSpectra ==
    UNION {{[w |-> a, t |-> t] : t \in [1..Len(a) -> BaseVals]} : a \in Axes}

NoiseVals == {-1, 0, 1}     \* samples of np.random.normal

-----------------------------------------------------------------------------
(* app.py: main() *)

Init ==
    /\ data \in Configs
    /\ pc = "check"
    /\ wstep = Unbound
    /\ s = NoSpectrum
    /\ w = << >>
    /\ spec = [n \in ModelNames |-> NoSpectrum]
    /\ spectrum = NoSpectrum
    /\ x = 0
    /\ printed = << >>
    /\ uncaught = ""
    /\ exitStatus = 0
    /\ solverCalls = 0
    /\ buildCount = [n \in ModelNames |-> 0]
    /\ log = << >>
    /\ scanStart = << >>
    /\ scanEnd = << >>

(* "if not __param_check(data)" without the return of its branch *)
ParamCheckStepNoReturn ==
    /\ pc = "check"
    /\ printed' = IF ParamCheck(data) THEN printed
                  ELSE Append(printed, "parameter check failed")
    /\ pc' = "wstep"
    /\ UNCHANGED <<data, wstep, s, w, spec, spectrum, x, uncaught,
                   exitStatus, solverCalls, buildCount, log, scanStart,
                   scanEnd>>

(* app.py:40-42 *)
ParamCheckStep ==
    /\ pc = "check"
    /\ IF ParamCheck(data)
       THEN /\ pc' = "wstep"
            /\ UNCHANGED <<printed, exitStatus>>
       ELSE /\ printed' = Append(printed, "parameter check failed")
            /\ pc' = "exit"
            /\ exitStatus' = 0      \* main returns, the script ends normally
    /\ UNCHANGED <<data, wstep, s, w, spec, spectrum, x, uncaught,
                   solverCalls, buildCount, log, scanStart, scanEnd>>

(* app.py:47, outside the try: an exception of __calc_wstep leaves main *)
CalcWstepStep ==
    /\ pc = "wstep"
    /\ LET r == CalcWstep(data["resolution"].num, data["zeroFill"].num)
       IN  IF r.raised
           THEN /\ uncaught' = "UnboundLocalError"
                /\ pc' = "exit"
                /\ exitStatus' = 1
                /\ UNCHANGED wstep
           ELSE /\ wstep' = Bound(r.value)
                /\ pc' = "solver"
                /\ UNCHANGED <<uncaught, exitStatus>>
    /\ UNCHANGED <<data, s, w, spec, spectrum, x, printed, solverCalls,
                   buildCount, log, scanStart, scanEnd>>

(* app.py:53-66: calc_spectrum returns a spectrum *)
CalcSpectrumOk ==
    /\ pc = "solver"
    /\ solverCalls' = solverCalls + 1
    /\ s' \in SolverSpectra
    /\ pc' = "axis"
    /\ UNCHANGED <<data, wstep, w, spec, spectrum, x, printed, uncaught,
                   exitStatus, buildCount, log, scanStart, scanEnd>>

(* the except branch retrying the call *)
CalcSpectrumRetries ==
    /\ pc = "solver"
    /\ solverCalls' = solverCalls + 1
    /\ printed' = Append(printed, "ERROR")
    /\ pc' = IF solverCalls = 0 THEN "solver" ELSE "exit"
    /\ exitStatus' = 0
    /\ UNCHANGED <<data, wstep, s, w, spec, spectrum, x, uncaught,
                   buildCount, log, scanStart, scanEnd>>

(* app.py:53-69: calc_spectrum raises; main prints and returns False *)
CalcSpectrumFails ==
    /\ pc = "solver"
    /\ solverCalls' = solverCalls + 1
    /\ printed' = Append(printed, "ERROR")
    /\ pc' = "exit"
    /\ exitStatus' = 0      \* the value main returns is dropped (app.py:247)
    /\ UNCHANGED <<data, wstep, s, w, spec, spectrum, x, uncaught,
                   buildCount, log, scanStart, scanEnd>>

(* a different axis of s, as get_wavelength() would give *)
GetWavelength ==
    /\ pc = "axis"
    /\ w' = [i \in 1..Len(s.w) |-> s.w[i] + 1]
    /\ pc' = "build"
    /\ UNCHANGED <<data, wstep, s, spec, spectrum, x, printed, uncaught,
                   exitStatus, solverCalls, buildCount, log, scanStart,
                   scanEnd>>

(* app.py:77 *)
GetWavenumber ==
    /\ pc = "axis"
    /\ w' = s.w
    /\ pc' = "build"
    /\ UNCHANGED <<data, wstep, s, spec, spectrum, x, printed, uncaught,
                   exitStatus, solverCalls, buildCount, log, scanStart,
                   scanEnd>>

Built == {n \in ModelNames : buildCount[n] > 0}

(* app.py:82-150: the next Spectrum(...) construction *)
BuildSpectrum ==
    /\ pc = "build"
    /\ LET name == ModelOrder[Cardinality(Built) + 1]
       IN  /\ spec' = [spec EXCEPT
                          ![name] = ModelSpectrum(name, w, data["source"].num)]
           /\ buildCount' = [buildCount EXCEPT ![name] = @ + 1]
    /\ pc' = IF Cardinality(Built) + 1 = Len(ModelOrder) THEN "source"
             ELSE "build"
    /\ UNCHANGED <<data, wstep, s, w, spectrum, x, printed, uncaught,
                   exitStatus, solverCalls, log, scanStart, scanEnd>>

Slab(name) == [op |-> "SerialSlabs", with |-> name, scan |-> x]

(* app.py:157 *)
ComposeSource ==
    /\ pc = "source"
    /\ spectrum' = SerialSlabs(s, spec["sPlanck"])
    /\ log' = Append(log, Slab("sPlanck"))
    /\ pc' = "loop"
    /\ UNCHANGED <<data, wstep, s, w, spec, x, printed, uncaught,
                   exitStatus, solverCalls, buildCount, scanStart, scanEnd>>

numScan == data["numScan"].num

(* a loop whose every scan starts again from the post-source spectrum *)
LoopHeadFresh ==
    /\ pc = "loop"
    /\ IF x < numScan
       THEN /\ x' = x + 1
            /\ spectrum' = SerialSlabs(s, spec["sPlanck"])
            /\ scanStart' = Append(scanStart, spectrum')
            /\ pc' = "bs"
            /\ UNCHANGED exitStatus
       ELSE /\ pc' = "exit"
            /\ exitStatus' = 0
            /\ UNCHANGED <<x, spectrum, scanStart>>
    /\ UNCHANGED <<data, wstep, s, w, spec, printed, uncaught, solverCalls,
                   buildCount, log, scanEnd>>

(* app.py:161: the next iteration of the for loop, or the end of main *)
LoopHead ==
    /\ pc = "loop"
    /\ IF x < numScan
       THEN /\ x' = x + 1
            /\ scanStart' = Append(scanStart, spectrum)
            /\ pc' = "bs"
            /\ UNCHANGED exitStatus
       ELSE /\ pc' = "exit"
            /\ exitStatus' = 0
            /\ UNCHANGED <<x, scanStart>>
    /\ UNCHANGED <<data, wstep, s, w, spec, spectrum, printed, uncaught,
                   solverCalls, buildCount, log, scanEnd>>

(* One SerialSlabs(spectrum, spec_<name>) statement, then on to pc next *)
Compose(name, next) ==
    /\ spectrum' = SerialSlabs(spectrum, spec[name])
    /\ log' = Append(log, Slab(name))
    /\ pc' = next

(* A match statement none of whose cases matches *)
NoCase(next) ==
    /\ pc' = next
    /\ UNCHANGED <<spectrum, log>>

(* a beamsplitter match with a default case *)
BeamsplitterDefault ==
    /\ pc = "bs"
    /\ CASE data["beamsplitter"].str = "AR_CaF2" -> Compose("AR_CaF2", "cw1")
         [] OTHER -> Compose("AR_ZnSe", "cw1")
    /\ UNCHANGED <<data, wstep, s, w, spec, x, printed, uncaught,
                   exitStatus, solverCalls, buildCount, scanStart, scanEnd>>

(* app.py:165-169 *)
Beamsplitter ==
    /\ pc = "bs"
    /\ CASE data["beamsplitter"].str = "AR_ZnSe" -> Compose("AR_ZnSe", "cw1")
         [] data["beamsplitter"].str = "AR_CaF2" -> Compose("AR_CaF2", "cw1")
         [] OTHER -> NoCase("cw1")
    /\ UNCHANGED <<data, wstep, s, w, spec, x, printed, uncaught,
                   exitStatus, solverCalls, buildCount, scanStart, scanEnd>>

(* app.py:178-180, 182-183: the first statement of the matching case *)
CellWindowFirst ==
    /\ pc = "cw1"
    /\ CASE data["cellWindow"].str = "CaF2" -> Compose("CaF2", "cw2")
         [] data["cellWindow"].str = "ZnSe" -> Compose("ZnSe", "cw2")
         [] OTHER -> NoCase("dw")
    /\ UNCHANGED <<data, wstep, s, w, spec, x, printed, uncaught,
                   exitStatus, solverCalls, buildCount, scanStart, scanEnd>>

(* a cell-window case of one statement *)
CellWindowOnce ==
    /\ pc = "cw2"
    /\ NoCase("dw")
    /\ UNCHANGED <<data, wstep, s, w, spec, x, printed, uncaught,
                   exitStatus, solverCalls, buildCount, scanStart, scanEnd>>

(* app.py:181, 184: the second statement of the matching case *)
CellWindowSecond ==
    /\ pc = "cw2"
    /\ CASE data["cellWindow"].str = "CaF2" -> Compose("CaF2", "dw")
         [] data["cellWindow"].str = "ZnSe" -> Compose("ZnSe", "dw")
    /\ UNCHANGED <<data, wstep, s, w, spec, x, printed, uncaught,
                   exitStatus, solverCalls, buildCount, scanStart, scanEnd>>

(* a detector match with the two windows exchanged *)
DetectorWindowSwapped ==
    /\ pc = "dw"
    /\ CASE data["detector"].str = "MCT" -> Compose("sapphire", "de")
         [] data["detector"].str = "InSb" -> Compose("ZnSe", "de")
         [] OTHER -> NoCase("noise")
    /\ UNCHANGED <<data, wstep, s, w, spec, x, printed, uncaught,
                   exitStatus, solverCalls, buildCount, scanStart, scanEnd>>

(* app.py:195-197, 199-200: the first statement of the matching case *)
DetectorWindow ==
    /\ pc = "dw"
    /\ CASE data["detector"].str = "MCT" -> Compose("ZnSe", "de")
         [] data["detector"].str = "InSb" -> Compose("sapphire", "de")
         [] OTHER -> NoCase("noise")
    /\ UNCHANGED <<data, wstep, s, w, spec, x, printed, uncaught,
                   exitStatus, solverCalls, buildCount, scanStart, scanEnd>>

(* app.py:198, 201: the second statement of the matching case *)
DetectorElement ==
    /\ pc = "de"
    /\ CASE data["detector"].str = "MCT" -> Compose("MCT", "noise")
         [] data["detector"].str = "InSb" -> Compose("InSb", "noise")
    /\ UNCHANGED <<data, wstep, s, w, spec, x, printed, uncaught,
                   exitStatus, solverCalls, buildCount, scanStart, scanEnd>>

(* app.py:210-214: one normal sample per point of the running spectrum *)
AddNoise ==
    /\ pc = "noise"
    /\ \E noise \in [1..Len(spectrum.w) -> NoiseVals] :
          spectrum' = AddArray(spectrum, noise)
    /\ log' = Append(log, [op |-> "add_array", with |-> "noise", scan |-> x])
    /\ scanEnd' = Append(scanEnd, spectrum')
    /\ pc' = "loop"
    /\ UNCHANGED <<data, wstep, s, w, spec, x, printed, uncaught,
                   exitStatus, solverCalls, buildCount, scanStart>>

Next ==
    \/ ParamCheckStep
    \/ CalcWstepStep
    \/ CalcSpectrumOk
    \/ CalcSpectrumFails
    \/ GetWavenumber
    \/ BuildSpectrum
    \/ ComposeSource
    \/ LoopHead
    \/ Beamsplitter
    \/ CellWindowFirst
    \/ CellWindowSecond
    \/ DetectorWindow
    \/ DetectorElement
    \/ AddNoise

Spec == Init /\ [][Next]_vars

-----------------------------------------------------------------------------
(* Properties *)

Exact(d) == DOMAIN d = valid_params /\ \A k \in DOMAIN d : ~d[k].none
CheckFailed == pc = "exit" /\ printed = <<"parameter check failed">>

(* C1: __param_check(data) is True exactly when the keys of data are the
   eleven required names and no value is None; otherwise it is False and
   nothing is raised: main prints "parameter check failed" and returns. *)
C1_ParamCheckExact ==
    /\ ParamCheck(data) = Exact(data)
    /\ pc # "check" => (CheckFailed <=> ~Exact(data))
    /\ ~Exact(data) => uncaught = ""

(* eleven keys, one of them unrecognized, and the check has failed *)
C1_Witness ==
    /\ Cardinality(DOMAIN data) = 11
    /\ DOMAIN data # valid_params
    /\ \A k \in DOMAIN data : ~data[k].none
    /\ CheckFailed

(* The table of the claim: the step halves with every halving of the
   resolution and with every level of zero filling. *)
StepTable ==
    <<481927711, 240963855, 120481928, 60240964, 30120482, 15060241, 7530120>>

Halvings(resolution) ==
    CASE resolution = 10000 -> 0
      [] resolution = 5000 -> 1
      [] resolution = 2500 -> 2
      [] resolution = 1250 -> 3
      [] resolution = 625 -> 4

ValidPair(resolution, zero_fill) ==
    resolution \in {10000, 5000, 2500, 1250, 625} /\ zero_fill \in {0, 1, 2}

resolution == data["resolution"].num
zeroFill == data["zeroFill"].num

(* C2: for the 15 valid (resolution, zeroFill) pairs __calc_wstep returns
   the tabulated step, (1, 0) -> 0.481927711 and (0.0625, 2) -> 0.00753012
   among them; for any other pair it raises (UnboundLocalError, which
   leaves main uncaught) and returns no value. *)
C2_WstepTable ==
    /\ CalcWstep(10000, 0) = [raised |-> FALSE, value |-> 481927711]
    /\ CalcWstep(625, 2) = [raised |-> FALSE, value |-> 7530120]
    /\ (Exact(data) /\ pc \notin {"check", "wstep"}) =>
          IF ValidPair(resolution, zeroFill)
          THEN /\ wstep = Bound(StepTable[Halvings(resolution) + zeroFill + 1])
               /\ uncaught = ""
          ELSE /\ wstep = Unbound
               /\ pc = "exit"
               /\ uncaught = "UnboundLocalError"
               /\ solverCalls = 0

(* a known resolution with an unknown zero fill has raised *)
C2_Witness ==
    /\ pc = "exit"
    /\ uncaught = "UnboundLocalError"
    /\ resolution = 625
    /\ zeroFill = 3

(* C3: when the parameter check fails, main ends before the grid step is
   resolved: calc_spectrum is never called, no model spectrum is built, and
   nothing is composed and no noise is added. *)
C3_AbortBeforeSolver ==
    ~ParamCheck(data) =>
        /\ pc \in {"check", "exit"}
        /\ wstep = Unbound
        /\ solverCalls = 0
        /\ s = NoSpectrum
        /\ \A n \in ModelNames : spec[n] = NoSpectrum /\ buildCount[n] = 0
        /\ spectrum = NoSpectrum
        /\ log = << >>
        /\ x = 0

(* a run that ended on a failed check of a configuration with a None *)
C3_Witness ==
    /\ \E k \in DOMAIN data : data[k].none
    /\ pc = "exit"
    /\ ~ParamCheck(data)

beamsplitter == data["beamsplitter"].str
cellWindow == data["cellWindow"].str
detector == data["detector"].str
temperature == data["source"].num

(* The models one scan composes with, in order, by the selectors *)
Chain ==
    (IF beamsplitter \in {"AR_ZnSe", "AR_CaF2"} THEN <<beamsplitter>>
     ELSE << >>)
    \o (IF cellWindow \in {"CaF2", "ZnSe"} THEN <<cellWindow, cellWindow>>
        ELSE << >>)
    \o (CASE detector = "MCT" -> <<"ZnSe", "MCT">>
          [] detector = "InSb" -> <<"sapphire", "InSb">>
          [] OTHER -> << >>)

PostSource == SerialSlabs(s, spec["sPlanck"])
Count(op) == Len(SelectSeq(log, LAMBDA e : e.op = op))
Finished == pc = "exit" /\ spectrum # NoSpectrum

(* C4: scan 1 starts from base x source and every later scan starts from
   the full noisy output of the scan before it; after n scans the running
   spectrum is the output of scan n and n noise arrays were added. *)
C4_ScansCompound ==
    /\ \A i \in 1..Len(scanStart) :
          scanStart[i] = IF i = 1 THEN PostSource ELSE scanEnd[i - 1]
    /\ Len(scanEnd) = Count("add_array")
    /\ Finished =>
          /\ Len(scanStart) = numScan
          /\ Len(scanEnd) = numScan
          /\ Count("SerialSlabs") = 1 + numScan * Len(Chain)
          /\ spectrum = IF numScan = 0 THEN PostSource ELSE scanEnd[numScan]

(* the second scan has started, from something else than base x source *)
C4_Witness ==
    /\ Len(scanStart) >= 2
    /\ scanStart[2] # PostSource
    /\ scanStart[2] = scanEnd[1]

AllOnes == \A i \in 1..Len(s.t) : s.t[i] = 1

(* The first scan of AR_ZnSe, CaF2, MCT on an all-ones base, before noise *)
C5_Case ==
    /\ pc = "noise"
    /\ x = 1
    /\ AllOnes
    /\ beamsplitter = "AR_ZnSe"
    /\ cellWindow = "CaF2"
    /\ detector = "MCT"

(* C5 as claimed: in that case the signal before noise is, at every axis
   point, the product of the five curves Source, AR_ZnSe, CaF2, ZnSe, MCT. *)
C5_FiveCurves ==
    C5_Case =>
        \A i \in 1..Len(w) :
            spectrum.t[i] = sPlanck(w[i], temperature) * AR_ZnSe(w[i])
                            * CaF2(w[i]) * ZnSe(w[i]) * MCT(w[i])

(* C5, amended: in that case the signal before noise is, at every axis
   point, the product of Source, AR_ZnSe, CaF2 twice, ZnSe and MCT. *)
C5_SixFactors ==
    C5_Case =>
        /\ spectrum.w = w
        /\ Len(spectrum.t) = Len(w)
        /\ \A i \in 1..Len(w) :
              spectrum.t[i] = sPlanck(w[i], temperature) * AR_ZnSe(w[i])
                              * CaF2(w[i]) * CaF2(w[i]) * ZnSe(w[i])
                              * MCT(w[i])

(* the case, on an axis of two points *)
C5_Witness == C5_Case /\ Len(w) = 2

(* C6: a run that passed validation and resolved the step calls
   calc_spectrum exactly once, before the loop: no call before the solver
   step, one call from then on, whatever numScan is and whether or not the
   call failed. *)
C6_SolverOnce ==
    /\ pc \in {"check", "wstep", "solver"} => solverCalls = 0
    /\ (wstep.bound /\ pc # "solver") => solverCalls = 1
    /\ ~wstep.bound => solverCalls = 0
    /\ (x > 0 \/ log # << >>) => solverCalls = 1

(* two scans are done and the solver was called once *)
C6_Witness ==
    /\ pc = "exit"
    /\ Len(scanEnd) = 2
    /\ numScan = 2
    /\ solverCalls = 1

ValidationFailed == pc = "exit" /\ ~ParamCheck(data)
SolverFailed == pc = "exit" /\ solverCalls > 0 /\ s = NoSpectrum

(* C7: on a validation failure or a solver failure the process reports an
   error, ends with a non-zero exit status and has produced no composed or
   scanned spectrum. *)
C7_FailureExitsNonZero ==
    (ValidationFailed \/ SolverFailed) =>
        /\ printed # << >>
        /\ exitStatus # 0
        /\ spectrum = NoSpectrum
        /\ scanEnd = << >>

(* C8: the pipeline checks that the two axes are equal before every
   pointwise multiplication: every SerialSlabs call main makes comes right
   after a comparison of the axes of its two arguments. *)
C8_AxesCheckedBeforeCompose ==
    \A i \in 1..Len(log) :
        log[i].op = "SerialSlabs" =>
            i > 1 /\ log[i - 1].op = "axis_check"

ScanLog(k) == SelectSeq(log, LAMBDA e : e.scan = k /\ k > 0)
IsPrefix(a, b) == Len(a) <= Len(b) /\ \A i \in 1..Len(a) : a[i] = b[i]
Recognized ==
    /\ Exact(data)
    /\ beamsplitter \in {"AR_ZnSe", "AR_CaF2"}
    /\ cellWindow \in {"CaF2", "ZnSe"}
    /\ detector \in {"MCT", "InSb"}

(* The calls of one scan with recognized selectors, as the claim lists them *)
ScanOrder(k) ==
    <<[op |-> "SerialSlabs", with |-> beamsplitter, scan |-> k],
      [op |-> "SerialSlabs", with |-> cellWindow, scan |-> k],
      [op |-> "SerialSlabs", with |-> cellWindow, scan |-> k],
      [op |-> "SerialSlabs", scan |-> k,
       with |-> IF detector = "MCT" THEN "ZnSe" ELSE "sapphire"],
      [op |-> "SerialSlabs", with |-> detector, scan |-> k],
      [op |-> "add_array", with |-> "noise", scan |-> k]>>

(* C9: with recognized selectors every scan composes with the beamsplitter
   model, twice with the cell-window model, with the detector window (ZnSe
   for MCT, sapphire for InSb), with the detector element, and then adds
   noise once: five compositions and one noise addition, in this order. *)
C9_ScanOrder ==
    Recognized =>
        \A k \in 1..x :
            /\ IsPrefix(ScanLog(k), ScanOrder(k))
            /\ (k <= Len(scanEnd)) => ScanLog(k) = ScanOrder(k)
            /\ (k < x) => k <= Len(scanEnd)

(* two scans with the InSb detector are done *)
C9_Witness ==
    /\ Recognized
    /\ detector = "InSb"
    /\ pc = "exit"
    /\ Len(scanEnd) = 2
    /\ Len(log) = 13

RECURSIVE Product(_, _)
(* The product at axis point p of the curves of the models named in names *)
Product(names, p) ==
    IF names = << >> THEN 1
    ELSE Curve(Head(names), p, temperature) * Product(Tail(names), p)

(* C10: a selector outside its known set passes validation and its stage
   leaves the running spectrum as it is: before the noise of a scan the
   spectrum is the scan's start times the curves of the stages whose
   selector is recognized, and the noise is still added. *)
C10_UnknownSelectorNoOp ==
    (Exact(data) /\ ~Recognized) =>
        /\ ParamCheck(data)
        /\ pc = "noise" =>
              /\ spectrum.w = scanStart[x].w
              /\ \A i \in 1..Len(w) :
                    spectrum.t[i] = scanStart[x].t[i] * Product(Chain, w[i])
              /\ ScanLog(x) = [i \in 1..Len(Chain) |-> Slab(Chain[i])]
        /\ Finished => Count("add_array") = numScan

(* a scan with an unknown beamsplitter and known window and detector has
   composed four times and is about to add noise *)
C10_Witness ==
    /\ pc = "noise"
    /\ beamsplitter = "KBr"
    /\ cellWindow = "ZnSe"
    /\ detector = "InSb"
    /\ x = 2
    /\ Len(ScanLog(2)) = 4

BeforeBuild == {"check", "wstep", "solver", "axis"}
InLoop == {"loop", "bs", "cw1", "cw2", "dw", "de", "noise"}
AfterBuild == InLoop \cup {"source"}
SameAxis(a, b) == a.w = b.w /\ Len(a.t) = Len(a.w) /\ Len(b.t) = Len(b.w)

(* C11: each of the eight model spectra is built once, before the loop, on
   the axis of the solver's spectrum, and is the same from then on; the
   two spectra of every composition (base x source, and the running
   spectrum with any model in a scan) have that one axis. *)
C11_BuiltOnceOnOneAxis ==
    /\ \A n \in ModelNames :
          /\ buildCount[n] <= 1
          /\ buildCount[n] = 0 => spec[n] = NoSpectrum
          /\ buildCount[n] = 1 =>
                /\ spec[n] = ModelSpectrum(n, s.w, data["source"].num)
                /\ SameAxis(spec[n], s)
    /\ pc \in BeforeBuild => \A n \in ModelNames : buildCount[n] = 0
    /\ (pc \in AfterBuild \/ x > 0) => \A n \in ModelNames : buildCount[n] = 1
    /\ pc = "source" => SameAxis(s, spec["sPlanck"])
    /\ pc \in InLoop =>
          /\ spectrum.w = s.w
          /\ \A n \in ModelNames : SameAxis(spectrum, spec[n])

(* in the second scan, on an axis of two points, with all models built *)
C11_Witness ==
    /\ pc = "de"
    /\ x = 2
    /\ Len(s.w) = 2
    /\ \A n \in ModelNames : buildCount[n] = 1 /\ spec[n].w = spectrum.w

====
